---- MODULE Spec2Model ----
(***************************************************************************)
(* A model of image_duplicate_finder.py: the Hamming distance over the     *)
(* hex-encoded fingerprints, the greedy grouping loop of                   *)
(* find_duplicate_images, and the file placement of copy_files_to_folders. *)
(***************************************************************************)
EXTENDS Integers, Sequences, FiniteSets, TLC

\* ---------------------------------------------------------------- bounds
\* The longest image list the grouping loop is run on.
MaxImages == 4
\* The largest similarity threshold tried (the front ends offer 0..10).
MaxThreshold == 3
\* The longest hex string handed to hamming_distance on its own.
MaxHexLen == 2

\* The hex digits the fingerprints of the image list are drawn from
\* (one hex digit each: a 4-bit fingerprint, as a 2x2 reduction gives).
FingerprintDigits == {0, 1, 3, 12, 15}
\* The hex digits the arguments of a lone hamming_distance call are drawn from.
SampleDigits == {0, 1, 3, 5, 7, 10, 12, 15}

VARIABLES
    \* find_duplicate_images
    images,                \* the list of [path, hash] built by the directory walk
    similarity_threshold,  \* the threshold of the run
    pc,                    \* the position of the control in the program
    i, j,                  \* the indices of the outer and of the inner loop
    duplicate_group,       \* the group being built for images[i]
    processed,             \* the set of claimed paths
    duplicates,            \* the groups emitted so far
    previous,              \* <<>>, or <<the threshold and the groups of the run before>>
    \* hamming_distance called on its own
    hash1, hash2,          \* the two arguments
    outcome,               \* <<>> before the call, <<the outcome of the call>> after
    last_call,             \* <<>>, or <<the arguments and the outcome of the call before>>
    \* copy_files_to_folders
    unique_inside,         \* whether unique_folder lies inside folder_path
    duplicate_inside,      \* whether duplicate_folder lies inside folder_path
    unique_files,          \* the file names in unique_folder
    duplicate_files,       \* the file names in duplicate_folder
    copied_files,          \* the copies made: a set of [src, dst]
    g, m,                  \* the group being placed, and the member of it
    w,                     \* the position of the walk in the files of folder_path
    pending,               \* the subfolders of folder_path the walk has yet to enter
    current,               \* the subfolder the walk is in
    listing                \* the files of that subfolder the walk has yet to visit

groupingVars == <<images, similarity_threshold, i, j, duplicate_group,
                  processed, duplicates, previous>>
hammingVars == <<hash1, hash2, outcome, last_call>>
copyVars == <<unique_inside, duplicate_inside, unique_files, duplicate_files,
              copied_files, g, m, w, pending, current, listing>>

vars == <<pc, groupingVars, hammingVars, copyVars>>

Range(s) == {s[k] : k \in DOMAIN s}

\* ------------------------------------------------------- hamming_distance
\* int(h, 16) of a string of hex digits (each digit given by its value).
RECURSIVE Int16(_)
Int16(h) ==
    IF h = <<>> THEN 0
    ELSE Int16(SubSeq(h, 1, Len(h) - 1)) * 16 + h[Len(h)]

\* A slip of the operator: h1 | h2 for h1 ^ h2.
RECURSIVE BitOr(_, _)
BitOr(a, b) ==
    IF a = 0 /\ b = 0 THEN 0
    ELSE (IF (a % 2) + (b % 2) > 0 THEN 1 ELSE 0) + 2 * BitOr(a \div 2, b \div 2)

\* h1 ^ h2 on non-negative integers.
RECURSIVE Xor(_, _)
Xor(a, b) ==
    IF a = 0 /\ b = 0 THEN 0
    ELSE (((a % 2) + (b % 2)) % 2) + 2 * Xor(a \div 2, b \div 2)

\* bin(n): the binary digits of n, most significant first (the "0b" prefix
\* holds no '1' and is left out).
RECURSIVE Bin(_)
Bin(n) == IF n < 2 THEN <<n>> ELSE Append(Bin(n \div 2), n % 2)

\* s.count('1')
CountOnes(s) == Cardinality({k \in DOMAIN s : s[k] = 1})

\* The value hamming_distance returns on two strings int() accepts.
hamming_distance(h1, h2) == CountOnes(Bin(Xor(Int16(h1), Int16(h2))))

\* What a call of hamming_distance does: int('', 16) raises ValueError, and
\* nothing else in the function raises.
hamming_call(h1, h2) ==
    IF h1 = <<>> \/ h2 = <<>>
    THEN [kind |-> "ValueError", value |-> 0]
    ELSE [kind |-> "return", value |-> hamming_distance(h1, h2)]

\* ------------------------------------------------- find_duplicate_images
\* Slips of the comparison: one too many, identical fingerprints only, the
\* comparison turned round, and the strict one.
SimilarLoose(distance, t) == distance <= t + 1
SimilarIdentical(distance, t) == distance = 0
SimilarReversed(distance, t) == distance >= t
SimilarStrict(distance, t) == distance < t

\* distance <= similarity_threshold
Similar(distance, t) == distance <= t

\* A scan that looks at claimed images too.
UnclaimedIgnored(path, set) == TRUE

\* img2_path not in processed
Unclaimed(path, set) == path \notin set

\* A member that is appended and not claimed.
ClaimMemberDropped(set, path) == set

\* processed.add(img2_path)
ClaimMember(set, path) == set \cup {path}

\* processed.add(img1_path)
ClaimSeed(set, path) == set \cup {path}

\* A group emitted whatever its size.
HasAny(group) == Len(group) >= 1

\* len(duplicate_group) > 1
HasDuplicates(group) == Len(group) > 1

\* The fingerprints of the image list: format(value, '01x').
Fingerprints == {<<d>> : d \in FingerprintDigits}

Thresholds == 0..MaxThreshold

\* The lists the directory walk can build: os.walk yields every file once,
\* so the paths are pairwise distinct; path k names the k-th file found.
ImageLists ==
    UNION {{[k \in 1..n |-> [path |-> k, hash |-> f[k]]] : f \in [1..n -> Fingerprints]}
           : n \in 0..MaxImages}

\* The state at the head of the grouping loop.
InitGrouping ==
    /\ images \in ImageLists
    /\ similarity_threshold \in Thresholds
    /\ pc = "outer"
    /\ i = 1
    /\ j = 1
    /\ duplicate_group = <<>>
    /\ processed = {}
    /\ duplicates = <<>>
    /\ previous = <<>>

\* for i, ... in enumerate(images): if img1_path in processed: continue
LoopSkip ==
    /\ pc = "outer"
    /\ i <= Len(images)
    /\ images[i].path \in processed
    /\ i' = i + 1
    /\ UNCHANGED <<images, similarity_threshold, pc, j, duplicate_group,
                   processed, duplicates, previous>>
    /\ UNCHANGED <<hammingVars, copyVars>>

\* duplicate_group = [img1_path], and the inner loop starts
LoopSeed ==
    /\ pc = "outer"
    /\ i <= Len(images)
    /\ images[i].path \notin processed
    /\ duplicate_group' = <<images[i].path>>
    /\ j' = 1
    /\ pc' = "inner"
    /\ UNCHANGED <<images, similarity_threshold, i, processed, duplicates, previous>>
    /\ UNCHANGED <<hammingVars, copyVars>>

\* One turn of the inner loop: for j, ... in enumerate(images)
ScanStep ==
    /\ pc = "inner"
    /\ j <= Len(images)
    /\ IF /\ i # j
          /\ Unclaimed(images[j].path, processed)
          /\ Similar(hamming_distance(images[i].hash, images[j].hash),
                     similarity_threshold)
       THEN /\ duplicate_group' = Append(duplicate_group, images[j].path)
            /\ processed' = ClaimMember(processed, images[j].path)
       ELSE UNCHANGED <<duplicate_group, processed>>
    /\ j' = j + 1
    /\ UNCHANGED <<images, similarity_threshold, pc, i, duplicates, previous>>
    /\ UNCHANGED <<hammingVars, copyVars>>

\* After the inner loop: if len(duplicate_group) > 1, emit and claim the seed
EndScan ==
    /\ pc = "inner"
    /\ j > Len(images)
    /\ IF HasDuplicates(duplicate_group)
       THEN /\ duplicates' = Append(duplicates, duplicate_group)
            /\ processed' = ClaimSeed(processed, images[i].path)
       ELSE UNCHANGED <<duplicates, processed>>
    /\ i' = i + 1
    /\ pc' = "outer"
    /\ UNCHANGED <<images, similarity_threshold, j, duplicate_group, previous>>
    /\ UNCHANGED <<hammingVars, copyVars>>

\* return duplicates
Return ==
    /\ pc = "outer"
    /\ i > Len(images)
    /\ pc' = "done"
    /\ UNCHANGED <<groupingVars, hammingVars, copyVars>>

\* The front end runs find_duplicate_images again on the same folder with
\* another threshold; the result of the run before is kept for comparison.
Rerun ==
    /\ pc = "done"
    /\ \E t \in Thresholds : similarity_threshold' = t
    /\ previous' = <<[threshold |-> similarity_threshold, duplicates |-> duplicates]>>
    /\ pc' = "outer"
    /\ i' = 1
    /\ j' = 1
    /\ duplicate_group' = <<>>
    /\ processed' = {}
    /\ duplicates' = <<>>
    /\ UNCHANGED <<images, hammingVars, copyVars>>

\* ------------------------------------------ hamming_distance on its own
HexStrings == UNION {[1..n -> SampleDigits] : n \in 0..MaxHexLen}

InitHamming ==
    /\ hash1 \in HexStrings
    /\ hash2 \in HexStrings
    /\ outcome = <<>>
    /\ last_call = <<>>

\* hamming_distance(hash1, hash2)
CallHamming ==
    /\ outcome = <<>>
    /\ outcome' = <<hamming_call(hash1, hash2)>>
    /\ UNCHANGED <<hash1, hash2, last_call>>
    /\ UNCHANGED <<pc, groupingVars, copyVars>>

\* The caller compares the same two fingerprints the other way round.
SwapArguments ==
    /\ outcome # <<>>
    /\ last_call = <<>>
    /\ last_call' = <<[hash1 |-> hash1, hash2 |-> hash2, outcome |-> outcome[1]]>>
    /\ hash1' = hash2
    /\ hash2' = hash1
    /\ outcome' = <<>>
    /\ UNCHANGED <<pc, groupingVars, copyVars>>


\* -------------------------------------------------- copy_files_to_folders
\* os.path.basename of the k-th file found: the names are sequences, so that
\* f"{base}_{counter}{ext}" is the name with the counter appended.
BaseName(path) == <<path>>

\* The file of folder_path an image path names.
SourceFile(path) == [dir |-> "folder", name |-> BaseName(path)]

\* The destination after the collision loop: the name itself when no file of
\* the folder has it, else the name with the least counter >= 1 that is free.
FreeName(existing, name) ==
    IF name \notin existing THEN name
    ELSE LET c == CHOOSE n \in 1..(Cardinality(existing) + 1) :
                      /\ Append(name, n) \notin existing
                      /\ \A k \in 1..(n - 1) : Append(name, k) \in existing
         IN  Append(name, c)

\* all_processed_paths = {img for group in duplicates for img in group}
AllProcessedPaths == UNION {Range(duplicates[k]) : k \in DOMAIN duplicates}

\* The subfolders of folder_path os.walk lists when it starts: the output
\* folders that were created inside it.
SubFolders ==
    (IF unique_inside THEN {"unique"} ELSE {})
        \cup (IF duplicate_inside THEN {"duplicates"} ELSE {})

\* The files of a subfolder, listed when the walk enters it.
FilesOf(dir) == IF dir = "unique" THEN unique_files ELSE duplicate_files

IdleCopy ==
    /\ unique_inside = FALSE
    /\ duplicate_inside = FALSE
    /\ unique_files = {}
    /\ duplicate_files = {}
    /\ copied_files = {}
    /\ g = 1
    /\ m = 1
    /\ w = 1
    /\ pending = {}
    /\ current = "folder"
    /\ listing = {}

\* The front end calls copy_files_to_folders when groups were found; the
\* output folders are new, inside folder_path (the default of browse_folder)
\* or outside it (the default of main).
CopyStart ==
    /\ pc = "done"
    /\ duplicates # <<>>
    /\ unique_inside' \in BOOLEAN
    /\ duplicate_inside' \in BOOLEAN
    /\ g' = 1
    /\ pc' = "copy_unique"
    /\ UNCHANGED <<unique_files, duplicate_files, copied_files, m, w, pending,
                   current, listing>>
    /\ UNCHANGED <<groupingVars, hammingVars>>

\* The first image of the group is copied to unique_folder.
CopyRepresentative ==
    /\ pc = "copy_unique"
    /\ g <= Len(duplicates)
    /\ LET original_img == duplicates[g][1]
           unique_dest == FreeName(unique_files, BaseName(original_img))
       IN  /\ unique_files' = unique_files \cup {unique_dest}
           /\ copied_files' = copied_files \cup
                  {[src |-> SourceFile(original_img),
                    dst |-> [dir |-> "unique", name |-> unique_dest]]}
    /\ m' = 2
    /\ pc' = "copy_duplicates"
    /\ UNCHANGED <<unique_inside, duplicate_inside, duplicate_files, g, w,
                   pending, current, listing>>
    /\ UNCHANGED <<groupingVars, hammingVars>>

\* for duplicate_img in group[1:]: copy to duplicate_folder
CopyDuplicate ==
    /\ pc = "copy_duplicates"
    /\ m <= Len(duplicates[g])
    /\ LET duplicate_img == duplicates[g][m]
           dup_dest == FreeName(duplicate_files, BaseName(duplicate_img))
       IN  /\ duplicate_files' = duplicate_files \cup {dup_dest}
           /\ copied_files' = copied_files \cup
                  {[src |-> SourceFile(duplicate_img),
                    dst |-> [dir |-> "duplicates", name |-> dup_dest]]}
    /\ m' = m + 1
    /\ UNCHANGED <<pc, unique_inside, duplicate_inside, unique_files, g, w,
                   pending, current, listing>>
    /\ UNCHANGED <<groupingVars, hammingVars>>

\* The group is done: on to the next one.
NextGroup ==
    /\ pc = "copy_duplicates"
    /\ m > Len(duplicates[g])
    /\ g' = g + 1
    /\ pc' = "copy_unique"
    /\ UNCHANGED <<unique_inside, duplicate_inside, unique_files, duplicate_files,
                   copied_files, m, w, pending, current, listing>>
    /\ UNCHANGED <<groupingVars, hammingVars>>

\* os.walk(folder_path) starts: the files and the subfolders of folder_path
\* are listed.
WalkStart ==
    /\ pc = "copy_unique"
    /\ g > Len(duplicates)
    /\ w' = 1
    /\ pending' = SubFolders
    /\ current' = "folder"
    /\ pc' = "walk_folder"
    /\ UNCHANGED <<unique_inside, duplicate_inside, unique_files, duplicate_files,
                   copied_files, g, m, listing>>
    /\ UNCHANGED <<groupingVars, hammingVars>>

\* A file of folder_path: copied to unique_folder unless a group holds it.
WalkFolderFile ==
    /\ pc = "walk_folder"
    /\ w <= Len(images)
    /\ IF images[w].path \notin AllProcessedPaths
       THEN LET destination == FreeName(unique_files, BaseName(images[w].path))
            IN  /\ unique_files' = unique_files \cup {destination}
                /\ copied_files' = copied_files \cup
                       {[src |-> SourceFile(images[w].path),
                         dst |-> [dir |-> "unique", name |-> destination]]}
       ELSE UNCHANGED <<unique_files, copied_files>>
    /\ w' = w + 1
    /\ UNCHANGED <<pc, unique_inside, duplicate_inside, duplicate_files, g, m,
                   pending, current, listing>>
    /\ UNCHANGED <<groupingVars, hammingVars>>

\* The walk enters a subfolder of folder_path (in the order of the directory
\* listing, which is arbitrary) and lists the files it holds by now.
WalkEnterSubfolder ==
    /\ \/ pc = "walk_folder" /\ w > Len(images)
       \/ pc = "walk_subfolder" /\ listing = {}
    /\ \E dir \in pending :
          /\ current' = dir
          /\ listing' = FilesOf(dir)
          /\ pending' = pending \ {dir}
    /\ pc' = "walk_subfolder"
    /\ UNCHANGED <<unique_inside, duplicate_inside, unique_files, duplicate_files,
                   copied_files, g, m, w>>
    /\ UNCHANGED <<groupingVars, hammingVars>>

\* A file of a subfolder: its path is in no group, so it is copied to
\* unique_folder.
WalkSubfolderFile ==
    /\ pc = "walk_subfolder"
    /\ \E file \in listing :
          LET destination == FreeName(unique_files, file)
          IN  /\ unique_files' = unique_files \cup {destination}
              /\ copied_files' = copied_files \cup
                     {[src |-> [dir |-> current, name |-> file],
                       dst |-> [dir |-> "unique", name |-> destination]]}
              /\ listing' = listing \ {file}
    /\ UNCHANGED <<pc, unique_inside, duplicate_inside, duplicate_files, g, m, w,
                   pending, current>>
    /\ UNCHANGED <<groupingVars, hammingVars>>

\* The walk is over: return copied_files.
WalkEnd ==
    /\ \/ pc = "walk_folder" /\ w > Len(images)
       \/ pc = "walk_subfolder" /\ listing = {}
    /\ pending = {}
    /\ pc' = "copied"
    /\ UNCHANGED <<groupingVars, hammingVars, copyVars>>

\* ---------------------------------------------------------- specifications
IdleGrouping ==
    /\ images = <<>>
    /\ similarity_threshold = 0
    /\ i = 1
    /\ j = 1
    /\ duplicate_group = <<>>
    /\ processed = {}
    /\ duplicates = <<>>
    /\ previous = <<>>

IdleHamming ==
    /\ hash1 = <<>>
    /\ hash2 = <<>>
    /\ outcome = <<>>
    /\ last_call = <<>>

\* find_duplicate_images, run and run again on one image list.
Init == InitGrouping /\ IdleHamming /\ IdleCopy

Next ==
    \/ LoopSkip
    \/ LoopSeed
    \/ ScanStep
    \/ EndScan
    \/ Return
    \/ Rerun

Spec == Init /\ [][Next]_vars

\* hamming_distance, called on two hex strings and then the other way round.
InitDistance == pc = "hamming" /\ IdleGrouping /\ InitHamming /\ IdleCopy

NextDistance ==
    \/ CallHamming
    \/ SwapArguments

SpecHamming == InitDistance /\ [][NextDistance]_vars

\* find_duplicate_images followed by copy_files_to_folders.
NextCopy ==
    \/ LoopSkip
    \/ LoopSeed
    \/ ScanStep
    \/ EndScan
    \/ Return
    \/ CopyStart
    \/ CopyRepresentative
    \/ CopyDuplicate
    \/ NextGroup
    \/ WalkStart
    \/ WalkFolderFile
    \/ WalkEnterSubfolder
    \/ WalkSubfolderFile
    \/ WalkEnd

SpecCopy == Init /\ [][NextCopy]_vars

\* ------------------------------------------------------------ the claims
\* The position of a path in the image list.
PositionOf(path) == CHOOSE k \in DOMAIN images : images[k].path = path

\* The Hamming distance between the fingerprints of two paths.
Distance(p, q) ==
    hamming_distance(images[PositionOf(p)].hash, images[PositionOf(q)].hash)

Paths == {images[k].path : k \in DOMAIN images}

\* The paths some emitted group holds.
Grouped == UNION {Range(duplicates[k]) : k \in DOMAIN duplicates}

\* The paths of the groups emitted before the k-th one.
GroupedBefore(k) == UNION {Range(duplicates[n]) : n \in 1..(k - 1)}

\* The first members of the emitted groups.
Representatives == {duplicates[k][1] : k \in DOMAIN duplicates}

\* C1: at any moment of the grouping loop, and so in the list it returns, no
\* path occurs twice in the emitted groups: not in two groups, and not twice
\* in one group.
C1_NoPathTwice ==
    \A a \in DOMAIN duplicates : \A b \in DOMAIN duplicates :
        \A x \in DOMAIN duplicates[a] : \A y \in DOMAIN duplicates[b] :
            duplicates[a][x] = duplicates[b][y] => (a = b /\ x = y)

\* The loop has returned two groups, the second seeded after claimed images
\* were skipped.
C1_Witness ==
    /\ pc = "done"
    /\ Len(duplicates) >= 2
    /\ Cardinality(processed) = 4

\* C2: in every emitted group, and in the group being built, every member
\* after the first is within similarity_threshold of the first; with
\* threshold 0 its fingerprint is the first member's.
C2_MembersNearRepresentative ==
    /\ \A k \in DOMAIN duplicates : \A x \in 2..Len(duplicates[k]) :
          /\ Distance(duplicates[k][1], duplicates[k][x]) <= similarity_threshold
          /\ similarity_threshold = 0 =>
                 images[PositionOf(duplicates[k][x])].hash
                     = images[PositionOf(duplicates[k][1])].hash
    /\ \A x \in 2..Len(duplicate_group) :
          Distance(duplicate_group[1], duplicate_group[x]) <= similarity_threshold

\* A returned group holds a member exactly at the threshold, a member nearer
\* than that, and an image just beyond the threshold was left out.
C2_Witness ==
    /\ pc = "done"
    /\ similarity_threshold >= 1
    /\ \E k \in DOMAIN duplicates :
          /\ \E x \in 2..Len(duplicates[k]) :
                Distance(duplicates[k][1], duplicates[k][x]) = similarity_threshold
          /\ \E x \in 2..Len(duplicates[k]) :
                Distance(duplicates[k][1], duplicates[k][x]) < similarity_threshold
          /\ \E p \in Paths \ Grouped :
                Distance(duplicates[k][1], p) = similarity_threshold + 1

\* C5: every emitted group has at least two members; between two turns of the
\* outer loop the claimed paths are exactly the paths of the emitted groups (a
\* seed that matched nothing is not claimed); a list of no or one image
\* returns no group.
C5_NoSingletonGroup ==
    /\ \A k \in DOMAIN duplicates : Len(duplicates[k]) >= 2
    /\ pc \in {"outer", "done"} => processed = Grouped
    /\ (pc = "done" /\ Len(images) <= 1) => duplicates = <<>>

\* The loop has returned a group, and a seed that matched nothing stayed out.
C5_Witness ==
    /\ pc = "done"
    /\ duplicates # <<>>
    /\ \E p \in Paths : p \notin processed /\ p \notin Grouped

\* C3 as it is written: when A matches B and B matches C but A does not
\* match C, C joins the group A seeds, provided C was unclaimed when the scan
\* of A reached it (C is in no group emitted before A's). The scenario of the
\* claim is an instance of it with the distances 3, 3 and 9, which no three
\* fingerprints have: the Hamming distance obeys the triangle inequality.
C3_ChainJoins ==
    pc = "done" =>
        \A k \in DOMAIN duplicates : \A x \in 2..Len(duplicates[k]) :
            \A c \in Paths \ (GroupedBefore(k) \cup {duplicates[k][1]}) :
                (/\ Distance(duplicates[k][x], c) <= similarity_threshold
                 /\ Distance(duplicates[k][1], c) > similarity_threshold)
                    => c \in Range(duplicates[k])

\* C3 amended: an image that is unclaimed when the scan of A reaches it joins
\* the group of A exactly when it is itself within the threshold of A; its
\* distance to the other members plays no part, so the C of a chain stays
\* out of the group.
C3_JoinsIffNearSeed ==
    pc = "done" =>
        \A k \in DOMAIN duplicates :
            \A c \in Paths \ (GroupedBefore(k) \cup {duplicates[k][1]}) :
                c \in Range(duplicates[k])
                    <=> Distance(duplicates[k][1], c) <= similarity_threshold

\* A chain in processing order A, B, C: the loop returned the single group
\* <<A, B>>, and C, within the threshold of B and not of A, is in no group.
C3_Witness ==
    /\ pc = "done"
    /\ Len(images) = 3
    /\ duplicates = <<<<images[1].path, images[2].path>>>>
    /\ Distance(images[1].path, images[2].path) <= similarity_threshold
    /\ Distance(images[2].path, images[3].path) <= similarity_threshold
    /\ Distance(images[1].path, images[3].path) > similarity_threshold
    /\ images[3].path \notin processed

\* The run before was made with a threshold no larger than this run's.
Raised ==
    /\ pc = "done"
    /\ previous # <<>>
    /\ previous[1].threshold <= similarity_threshold

\* C4 as it is written: every group of the run at the smaller threshold is
\* contained in a group of the run at the larger one.
C4_ThresholdMonotonic ==
    Raised =>
        \A a \in DOMAIN previous[1].duplicates :
            \E b \in DOMAIN duplicates :
                Range(previous[1].duplicates[a]) \subseteq Range(duplicates[b])

\* C4 amended: when the threshold is raised, the group seeded by the first
\* image of the list keeps its members, and of a representative and a member
\* of one group at the smaller threshold at least one is in a group at the
\* larger one.
C4_FirstGroupMonotonic ==
    Raised =>
        /\ (/\ previous[1].duplicates # <<>>
            /\ previous[1].duplicates[1][1] = images[1].path)
               => /\ duplicates # <<>>
                  /\ duplicates[1][1] = images[1].path
                  /\ Range(previous[1].duplicates[1]) \subseteq Range(duplicates[1])
        /\ \A a \in DOMAIN previous[1].duplicates :
               \A x \in 2..Len(previous[1].duplicates[a]) :
                   \/ previous[1].duplicates[a][1] \in Grouped
                   \/ previous[1].duplicates[a][x] \in Grouped

\* The threshold was raised, the first image seeded a group in both runs, and
\* the group gained a member.
C4_Witness ==
    /\ Raised
    /\ previous[1].threshold < similarity_threshold
    /\ previous[1].duplicates # <<>>
    /\ previous[1].duplicates[1][1] = images[1].path
    /\ duplicates # <<>>
    /\ Len(duplicates[1]) > Len(previous[1].duplicates[1])

\* The forward-only scan the specification describes, on the image list
\* imgs with threshold t: the positions after seed that are unclaimed and
\* within t of it, in increasing order.
ForwardMatches(imgs, t, seed, claimed) ==
    SelectSeq([k \in 1..Len(imgs) |-> k],
              LAMBDA k : /\ k > seed
                         /\ imgs[k].path \notin claimed
                         /\ hamming_distance(imgs[seed].hash, imgs[k].hash) <= t)

\* The groups the forward-only scan emits from position seed on.
RECURSIVE ForwardGroups(_, _, _, _)
ForwardGroups(imgs, t, seed, claimed) ==
    IF seed > Len(imgs) THEN <<>>
    ELSE IF imgs[seed].path \in claimed
         THEN ForwardGroups(imgs, t, seed + 1, claimed)
         ELSE LET found == ForwardMatches(imgs, t, seed, claimed)
                  group == <<imgs[seed].path>>
                               \o [k \in 1..Len(found) |-> imgs[found[k]].path]
              IN  IF found = <<>>
                  THEN ForwardGroups(imgs, t, seed + 1, claimed)
                  ELSE <<group>> \o ForwardGroups(imgs, t, seed + 1,
                                                  claimed \cup Range(group))

\* C9: the list the loop returns, which scans every position j # i, is the list
\* the forward-only scan over j > i gives: the members of a group follow its
\* representative in increasing input position, and the groups come in
\* increasing position of their representatives.
C9_ScanIsForwardOnly ==
    pc = "done" =>
        /\ duplicates = ForwardGroups(images, similarity_threshold, 1, {})
        /\ \A k \in DOMAIN duplicates : \A x \in 1..(Len(duplicates[k]) - 1) :
              PositionOf(duplicates[k][x]) < PositionOf(duplicates[k][x + 1])
        /\ \A k \in 1..(Len(duplicates) - 1) :
              PositionOf(duplicates[k][1]) < PositionOf(duplicates[k + 1][1])

\* The loop returned a group whose seed came after an image that was still
\* unclaimed, so that its scan compared it with an earlier position.
C9_Witness ==
    /\ pc = "done"
    /\ Len(duplicates) >= 1
    /\ \E k \in DOMAIN duplicates : \E p \in Paths \ Grouped :
          PositionOf(p) < PositionOf(duplicates[k][1])

\* The images copy_files_to_folders sends to unique_folder: the
\* representatives and the images in no group.
UniqueBound == Representatives \cup (Paths \ Grouped)

Bit(digit, b) == (digit \div (2 ^ b)) % 2

\* The number of bit positions in which two hex strings of one length differ.
DifferingBits(h1, h2) ==
    Cardinality({pos \in (1..Len(h1)) \X (0..3) :
                    Bit(h1[pos[1]], pos[2]) # Bit(h2[pos[1]], pos[2])})

\* C6: on two fingerprints of one width w (hex strings of one length, not
\* empty), hamming_distance returns the number of bit positions in which they
\* differ: between 0 and w, 0 on a fingerprint and itself, and the same
\* value with the arguments the other way round.
C6_HammingCountsDifferingBits ==
    (outcome # <<>> /\ Len(hash1) = Len(hash2) /\ Len(hash1) >= 1) =>
        /\ outcome[1].kind = "return"
        /\ outcome[1].value = DifferingBits(hash1, hash2)
        /\ outcome[1].value >= 0
        /\ outcome[1].value <= 4 * Len(hash1)
        /\ hash1 = hash2 => outcome[1].value = 0
        /\ last_call # <<>> => outcome[1].value = last_call[1].outcome.value

\* Two fingerprints of two hex digits that differ in both digits were
\* compared both ways round.
C6_Witness ==
    /\ outcome # <<>>
    /\ last_call # <<>>
    /\ Len(hash1) = 2
    /\ Len(hash2) = 2
    /\ hash1[1] # hash2[1]
    /\ hash1[2] # hash2[2]
    /\ outcome[1].value >= 5

\* C7 as it is written: a call on two fingerprints of different width (hex
\* strings of different length, neither empty) fails, with WidthMismatch, and
\* returns no distance.
C7_WidthMismatchRaised ==
    (outcome # <<>> /\ Len(hash1) # Len(hash2) /\ Len(hash1) >= 1 /\ Len(hash2) >= 1) =>
        /\ outcome[1].kind # "return"
        /\ outcome[1].kind = "WidthMismatch"

\* The files of folder_path: the images the walk found.
SourceFiles == {SourceFile(p) : p \in Paths}

\* The copies made of one file.
CopiesOf(file) == {c \in copied_files : c.src = file}

\* C8 as it is written: when copy_files_to_folders has returned, every source
\* image was copied exactly once, a representative or an image of no group to
\* unique_folder and any other member to duplicate_folder, and nothing else
\* was copied.
C8_EveryImagePlacedOnce ==
    pc = "copied" =>
        /\ \A p \in Paths :
              /\ Cardinality(CopiesOf(SourceFile(p))) = 1
              /\ \A c \in CopiesOf(SourceFile(p)) :
                    c.dst.dir = IF p \in UniqueBound THEN "unique" ELSE "duplicates"
        /\ \A c \in copied_files : c.src \in SourceFiles
        /\ Cardinality(unique_files) = Cardinality(UniqueBound)
        /\ Cardinality(duplicate_files) = Cardinality(Paths \ UniqueBound)

\* The same statement for output folders outside folder_path only.
PlacedOnceWhenOutside ==
    (~unique_inside /\ ~duplicate_inside) => C8_EveryImagePlacedOnce

====
